---- MODULE Spec2Model ----
(***************************************************************************)
(* Model of functions/notify_slack.py: the Lambda entry point that turns   *)
(* SNS / S3 envelope records into Slack messages and POSTs them.           *)
(*                                                                         *)
(* Python values are tagged records:                                       *)
(*   [t |-> "str",  toks |-> <<chunk, ...>>]  a str; the string is the     *)
(*                                  concatenation of its chunks, and the   *)
(*                                  chunking carries what split, regex and *)
(*                                  substring tests can see                *)
(*   [t |-> "jsonstr", v |-> value]  a str holding the JSON text of value  *)
(*   [t |-> "num",  n |-> Int]   [t |-> "none"]                            *)
(*   [t |-> "list", items |-> <<value, ...>>]                              *)
(*   [t |-> "dict", items |-> <<<<key, value>>, ...>>]  insertion-ordered  *)
(* Strings produced by the formatters are plain TLA+ strings.              *)
(* A call that may raise yields [ok |-> TRUE, val |-> v] or                *)
(* [ok |-> FALSE, err |-> "<exception class>"].                            *)
(***************************************************************************)
EXTENDS Integers, Sequences, FiniteSets, TLC

VARIABLES
    event,       \* event["Records"] handed to lambda_handler
    slack_url,   \* os.environ["SLACK_WEBHOOK_URL"]: "http" (plain) or "cipher"
    pc,          \* position of lambda_handler
    idx,         \* index of the record the for loop is at (1-based)
    payload,     \* the send payload of the current record, or None
    response,    \* the local `response` of lambda_handler, or None
    posts,       \* the payloads handed to urllib.request.urlopen, in order
    answer,      \* what urlopen did with the latest POST, or "none"
    logged,      \* whether the "Error: received status" line was logged
    raised       \* the exception lambda_handler ended with, or "none"

vars == <<event, slack_url, pc, idx, payload, response, posts, answer, logged,
          raised>>

----------------------------------------------------------------------------
(* Python values *)

Str(toks) == [t |-> "str", toks |-> toks]
S(s) == Str(<<s>>)
JsonStr(v) == [t |-> "jsonstr", v |-> v]
Num(n) == [t |-> "num", n |-> n]
None == [t |-> "none"]
List(items) == [t |-> "list", items |-> items]
Dict(items) == [t |-> "dict", items |-> items]

Ok(v) == [ok |-> TRUE, val |-> v]
Raise(e) == [ok |-> FALSE, err |-> e]

IsStr(v) == v.t \in {"str", "jsonstr"}
IsDict(v) == v.t = "dict"

RECURSIVE Concat(_)
\* the string a chunk sequence stands for
Concat(toks) ==
    IF toks = <<>> THEN ""
    ELSE IF Len(toks) = 1 THEN toks[1]
    ELSE Concat(SubSeq(toks, 1, Len(toks) \div 2))
         \o Concat(SubSeq(toks, Len(toks) \div 2 + 1, Len(toks)))

\* k in d, d.get(k, default), d[k] for a dict d
Keys(d) == [i \in 1..Len(d.items) |-> d.items[i][1]]
HasKey(d, k) == \E i \in 1..Len(d.items) : d.items[i][1] = k
Lookup(d, k) == d.items[CHOOSE i \in 1..Len(d.items) : d.items[i][1] = k][2]
Get(d, k, default) == IF HasKey(d, k) THEN Lookup(d, k) ELSE default
HasAll(d, ks) == \A k \in ks : HasKey(d, k)

\* v == "literal" for a Python value v
EqStr(v, s) == v.t = "str" /\ Concat(v.toks) = s

\* {**a, **b}: a's keys in order with b's values where b has the key, then
\* b's other keys in order
DictMerge(a, b) ==
    LET kept == [i \in 1..Len(a.items) |->
                    <<a.items[i][1], Get(b, a.items[i][1], a.items[i][2])>>]
        new == SelectSeq(b.items, LAMBDA p : ~HasKey(a, p[1]))
    IN  Dict(kept \o new)

\* d with d[k] = v assigned
DictSet(d, k, v) == DictMerge(d, Dict(<<<<k, v>>>>))

----------------------------------------------------------------------------
(* str(), repr() and json.dumps() *)

\* the characters the model writes in place of a backtick and of the two
\* emoji of format_aws_backup
BACKTICK == "^"
WarningGlyph == "(warning) "
CheckGlyph == "(check) "

RECURSIVE ReprToks(_)
RECURSIVE ReprItems(_)
RECURSIVE ReprPairs(_)
\* repr(v): strings single-quoted, None, [..] and {..} with ", " and ": "
ReprToks(v) ==
    CASE v.t = "str"  -> <<"'">> \o v.toks \o <<"'">>
      [] v.t = "jsonstr" -> <<"'", "<json>", "'">>
      [] v.t = "num"  -> <<ToString(v.n)>>
      [] v.t = "none" -> <<"None">>
      [] v.t = "list" -> <<"[">> \o ReprItems(v.items) \o <<"]">>
      [] v.t = "dict" -> <<"{">> \o ReprPairs(v.items) \o <<"}">>
ReprItems(items) ==
    IF items = <<>> THEN <<>>
    ELSE ReprToks(Head(items))
         \o (IF Len(items) > 1 THEN <<",", " ">> ELSE <<>>)
         \o ReprItems(Tail(items))
ReprPairs(items) ==
    IF items = <<>> THEN <<>>
    ELSE <<"'", Head(items)[1], "'", ":", " ">> \o ReprToks(Head(items)[2])
         \o (IF Len(items) > 1 THEN <<",", " ">> ELSE <<>>)
         \o ReprPairs(Tail(items))

\* str(v), as chunks: a str is itself, anything else its repr
StrToks(v) == IF v.t = "str" THEN v.toks ELSE ReprToks(v)
\* f"{v}"
Fmt(v) == Concat(StrToks(v))
\* f"`{v}`"
Quoted(s) == BACKTICK \o s \o BACKTICK

RECURSIVE JsonToks(_)
RECURSIVE JsonItems(_)
RECURSIVE JsonPairs(_)
\* json.dumps(v): strings double-quoted, null, [..] and {..}
JsonToks(v) ==
    CASE v.t = "str"  -> <<"\"">> \o v.toks \o <<"\"">>
      [] v.t = "jsonstr" -> <<"\"", "<json>", "\"">>
      [] v.t = "num"  -> <<ToString(v.n)>>
      [] v.t = "none" -> <<"null">>
      [] v.t = "list" -> <<"[">> \o JsonItems(v.items) \o <<"]">>
      [] v.t = "dict" -> <<"{">> \o JsonPairs(v.items) \o <<"}">>
JsonItems(items) ==
    IF items = <<>> THEN <<>>
    ELSE JsonToks(Head(items))
         \o (IF Len(items) > 1 THEN <<",", " ">> ELSE <<>>)
         \o JsonItems(Tail(items))
JsonPairs(items) ==
    IF items = <<>> THEN <<>>
    ELSE <<"\"", Head(items)[1], "\"", ":", " ">> \o JsonToks(Head(items)[2])
         \o (IF Len(items) > 1 THEN <<",", " ">> ELSE <<>>)
         \o JsonPairs(Tail(items))
json_dumps(v) == Concat(JsonToks(v))

\* json.loads(m) of a str m: the value it encodes, or JSONDecodeError
json_loads(m) ==
    IF m.t = "jsonstr" THEN Ok(m.v) ELSE Raise("JSONDecodeError")

----------------------------------------------------------------------------
(* str.split, `in` on str, str.replace, at chunk granularity *)

\* sub in s, for a str s: a chunk of s is sub
Contains(toks, sub) == \E i \in 1..Len(toks) : toks[i] = sub

\* s.split(sep)[0]: the chunks before the first separator chunk
SplitFirst(toks, sep) ==
    IF Contains(toks, sep)
    THEN SubSeq(toks, 1, (CHOOSE i \in 1..Len(toks) :
                            toks[i] = sep /\ \A j \in 1..(i-1) : toks[j] /= sep) - 1)
    ELSE toks

\* s.split(sep): the chunk sequences between separator chunks
RECURSIVE Split(_, _)
Split(toks, sep) ==
    IF ~Contains(toks, sep) THEN <<toks>>
    ELSE LET first == SplitFirst(toks, sep)
         IN  <<first>> \o Split(SubSeq(toks, Len(first) + 2, Len(toks)), sep)

\* s.split(sep)[-1]: the chunks after the last separator chunk
SplitLast(toks, sep) ==
    IF Contains(toks, sep)
    THEN SubSeq(toks, (CHOOSE i \in 1..Len(toks) :
                        toks[i] = sep /\ \A j \in (i+1)..Len(toks) : toks[j] /= sep) + 1,
                Len(toks))
    ELSE toks

\* the first index at which sub occurs in toks, 0 when it does not
IndexOf(toks, sub) ==
    LET at(i) == SubSeq(toks, i, i + Len(sub) - 1) = sub
        starts == {i \in 1..(Len(toks) - Len(sub) + 1) : at(i)}
    IN  IF starts = {} THEN 0
        ELSE CHOOSE i \in starts : \A j \in starts : i <= j

RECURSIVE Replace(_, _, _)
\* s.replace(old, new): every non-overlapping occurrence, left to right
Replace(toks, old, new) ==
    LET i == IndexOf(toks, old)
    IN  IF old = <<>> \/ i = 0 THEN toks
        ELSE SubSeq(toks, 1, i - 1) \o new
             \o Replace(SubSeq(toks, i + Len(old), Len(toks)), old, new)

\* s.removesuffix(".")
RemoveSuffixDot(toks) ==
    IF toks /= <<>> /\ toks[Len(toks)] = "."
    THEN SubSeq(toks, 1, Len(toks) - 1) ELSE toks

\* evaluation order: the error e of a step if it raises, else what follows
Then(e, rest) == IF e /= "none" THEN e ELSE rest

\* d[k]: the error it raises, if any
Need(d, k) ==
    IF ~IsDict(d) THEN "TypeError"
    ELSE IF HasKey(d, k) THEN "none" ELSE "KeyError"

RECURSIVE Path(_, _)
\* d[k1][k2]...: the value, or the KeyError / TypeError of the first bad step
Path(d, ks) ==
    IF ks = <<>> THEN Ok(d)
    ELSE IF Need(d, Head(ks)) /= "none" THEN Raise(Need(d, Head(ks)))
    ELSE Path(Lookup(d, Head(ks)), Tail(ks))
PathErr(d, ks) == IF Path(d, ks).ok THEN "none" ELSE Path(d, ks).err
At(d, ks) == Path(d, ks).val

Field(title, value, short) == [title |-> title, value |-> value, short |-> short]

----------------------------------------------------------------------------
(* get_service_url and the CloudWatch alarm formatter *)

AwsService == {"cloudwatch", "guardduty"}

\* get_service_url(region, service)
get_service_url(region, service) ==
    IF service \notin AwsService THEN Raise("KeyError")
    ELSE IF region.t /= "str" THEN Raise("AttributeError")
    ELSE IF region.toks /= <<>> /\ Head(region.toks) = "us-gov-"
    THEN Ok("https://console.amazonaws-us-gov.com/" \o service
            \o "/home?region=" \o Fmt(region))
    ELSE Ok("https://console.aws.amazon.com/" \o service
            \o "/home?region=" \o Fmt(region))

\* class CloudWatchAlarmState(Enum)
CloudWatchAlarmState ==
    [OK |-> "good", INSUFFICIENT_DATA |-> "warning", ALARM |-> "danger"]

\* Enum[name] for a Python value: the error it raises, if any
EnumErr(enum, v) ==
    IF v.t \in {"list", "dict"} THEN "TypeError"
    ELSE IF v.t = "str" /\ Concat(v.toks) \in DOMAIN enum THEN "none"
    ELSE "KeyError"

\* urllib.parse.quote(s): a space becomes %20; the other chunks the model
\* uses are made of unreserved characters, which quote leaves alone
quote(toks) ==
    Concat([i \in 1..Len(toks) |-> IF toks[i] = " " THEN "%20" ELSE toks[i]])

\* "color": CloudWatchAlarmState[message["NewStateValue"]].value
AlarmColorSwapped(message) ==
    IF Concat(Lookup(message, "NewStateValue").toks) = "OK" THEN "good"
    ELSE IF Concat(Lookup(message, "NewStateValue").toks) = "ALARM" THEN "warning"
    ELSE "danger"
AlarmColor(message) ==
    CloudWatchAlarmState[Concat(Lookup(message, "NewStateValue").toks)]

\* the exceptions of format_cloudwatch_alarm, in evaluation order
AlarmErr(message, region) ==
    Then(IF get_service_url(region, "cloudwatch").ok THEN "none"
        ELSE get_service_url(region, "cloudwatch").err,
        Then(Need(message, "AlarmName"),
        Then(Need(message, "NewStateValue"),
        Then(IF Need(message, "NewStateValue") = "none"
        THEN EnumErr(CloudWatchAlarmState, Lookup(message, "NewStateValue"))
        ELSE "none",
        Then(Need(message, "AlarmDescription"),
        Then(Need(message, "NewStateReason"),
        Then(Need(message, "OldStateValue"),
        Then(IF Need(message, "AlarmName") = "none"
           /\ Lookup(message, "AlarmName").t /= "str"
        THEN "TypeError" ELSE "none",
        "none"))))))))

format_cloudwatch_alarm(message, region) ==
    IF AlarmErr(message, region) /= "none" THEN Raise(AlarmErr(message, region))
    ELSE
    LET cloudwatch_url == get_service_url(region, "cloudwatch").val
        alarm_name == Lookup(message, "AlarmName")
    IN  Ok([color |-> AlarmColor(message),
            fallback |-> "Alarm " \o Fmt(alarm_name) \o " triggered",
            fields |-> <<
              Field("Alarm Name", Quoted(Fmt(alarm_name)), TRUE),
              Field("Alarm Description",
                    Quoted(Fmt(Lookup(message, "AlarmDescription"))), FALSE),
              Field("Alarm reason",
                    Quoted(Fmt(Lookup(message, "NewStateReason"))), FALSE),
              Field("Old State",
                    Quoted(Fmt(Lookup(message, "OldStateValue"))), TRUE),
              Field("Current State",
                    Quoted(Fmt(Lookup(message, "NewStateValue"))), TRUE),
              Field("Link to Alarm",
                    cloudwatch_url \o "#alarm:alarmFilter=ANY;name="
                        \o quote(alarm_name.toks), FALSE) >>,
            text |-> "AWS CloudWatch notification - " \o Fmt(alarm_name)])

----------------------------------------------------------------------------
(* GuardDuty finding and AWS Health formatters *)

\* class GuardDutyFindingSeverity(Enum)
GuardDutyFindingSeverity ==
    [Low |-> "#777777", Medium |-> "warning", High |-> "danger"]

\* the score thresholds 4.0 and 7.0, in tenths
LowBelow == 40
MediumBelow == 70

\* severity scores are numbers in tenths: Num(80) is 8.0
SeverityName(severity_score) ==
    IF severity_score < LowBelow THEN "Low"
    ELSE IF severity_score < MediumBelow THEN "Medium"
    ELSE "High"

\* the exceptions of format_guardduty_finding, in evaluation order
GuardDutyErr(message, region) ==
    LET detail == Lookup(message, "detail")
        service == Get(detail, "service", Dict(<<>>))
    IN  Then(IF get_service_url(region, "guardduty").ok THEN "none"
        ELSE get_service_url(region, "guardduty").err,
        Then(Need(message, "detail"),
        Then(IF ~IsDict(detail) THEN "AttributeError" ELSE "none",
        Then(IF Get(detail, "severity", None).t /= "num" THEN "TypeError" ELSE "none",
        Then(Need(detail, "description"),
        Then(Need(detail, "type"),
        Then(Need(service, "eventFirstSeen"),
        Then(Need(service, "eventLastSeen"),
        Then(Need(detail, "accountId"),
        Then(Need(service, "count"),
        Then(Need(detail, "id"),
        "none")))))))))))

format_guardduty_finding(message, region) ==
    IF GuardDutyErr(message, region) /= "none"
    THEN Raise(GuardDutyErr(message, region))
    ELSE
    LET guardduty_url == get_service_url(region, "guardduty").val
        detail == Lookup(message, "detail")
        service == Get(detail, "service", Dict(<<>>))
        severity == SeverityName(Lookup(detail, "severity").n)
        title == Fmt(Get(detail, "title", None))
    IN  Ok([color |-> GuardDutyFindingSeverity[severity],
            fallback |-> "GuardDuty Finding: " \o title,
            fields |-> <<
              Field("Description", Quoted(Fmt(Lookup(detail, "description"))), FALSE),
              Field("Finding Type", Quoted(Fmt(Lookup(detail, "type"))), FALSE),
              Field("First Seen", Quoted(Fmt(Lookup(service, "eventFirstSeen"))), TRUE),
              Field("Last Seen", Quoted(Fmt(Lookup(service, "eventLastSeen"))), TRUE),
              Field("Severity", Quoted(severity), TRUE),
              Field("Account ID", Quoted(Fmt(Lookup(detail, "accountId"))), TRUE),
              Field("Count", Quoted(Fmt(Lookup(service, "count"))), TRUE),
              Field("Link to Finding",
                    guardduty_url \o "#/findings?search=id%3D"
                        \o Fmt(Lookup(detail, "id")), FALSE) >>,
            text |-> "AWS GuardDuty Finding - " \o title])

\* class AwsHealthCategory(Enum)
AwsHealthCategory ==
    [accountNotification |-> "#777777", scheduledChange |-> "warning",
     issue |-> "danger"]

\* the default "<unknown>", chunked by character for ', '.join
Unknown == Str(<<"<", "u", "n", "k", "n", "o", "w", "n", ">">>)

RECURSIVE JoinComma(_)
JoinComma(strs) ==
    IF strs = <<>> THEN ""
    ELSE IF Len(strs) = 1 THEN Head(strs)
    ELSE Head(strs) \o ", " \o JoinComma(Tail(strs))

\* ', '.join(resources): over the elements of a list, the characters of a str
JoinResources(resources) ==
    IF resources.t = "list"
    THEN JoinComma([i \in 1..Len(resources.items) |-> Fmt(resources.items[i])])
    ELSE JoinComma(resources.toks)

\* the exceptions of format_aws_health, in evaluation order
HealthErr(message) ==
    LET detail == Lookup(message, "detail")
        resources == Get(message, "resources", Unknown)
    IN  Then(Need(message, "detail"),
        Then(IF ~IsDict(detail) THEN "AttributeError" ELSE "none",
        Then(Need(detail, "eventTypeCategory"),
        Then(EnumErr(AwsHealthCategory, Lookup(detail, "eventTypeCategory")),
        Then(Need(detail, "eventDescription"),
        Then(IF Lookup(detail, "eventDescription").t /= "list" THEN "TypeError"
        ELSE IF Lookup(detail, "eventDescription").items = <<>> THEN "IndexError"
        ELSE Need(Lookup(detail, "eventDescription").items[1], "latestDescription"),
        Then(IF resources.t \notin {"list", "str"}
           \/ (resources.t = "list"
               /\ \E i \in 1..Len(resources.items) : resources.items[i].t /= "str")
        THEN "TypeError" ELSE "none",
        "none")))))))

format_aws_health(message, region) ==
    IF HealthErr(message) /= "none" THEN Raise(HealthErr(message))
    ELSE
    LET aws_health_url == "https://phd.aws.amazon.com/phd/home?region="
                            \o Fmt(region) \o "#/dashboard/open-issues"
        detail == Lookup(message, "detail")
        resources == Get(message, "resources", Unknown)
        service == Fmt(Get(detail, "service", Unknown))
    IN  Ok([color |-> AwsHealthCategory[Fmt(Lookup(detail, "eventTypeCategory"))],
            text |-> "New AWS Health Event for " \o service,
            fallback |-> "New AWS Health Event for " \o service,
            fields |-> <<
              Field("Affected Service", Quoted(service), TRUE),
              Field("Affected Region", Quoted(Fmt(Get(message, "region", None))), TRUE),
              Field("Code", Quoted(Fmt(Get(detail, "eventTypeCode", None))), FALSE),
              Field("Event Description",
                    Quoted(Fmt(Lookup(Lookup(detail, "eventDescription").items[1],
                                      "latestDescription"))), FALSE),
              Field("Affected Resources", Quoted(JoinResources(resources)), FALSE),
              Field("Start Time", Quoted(Fmt(Get(detail, "startTime", Unknown))), TRUE),
              Field("End Time", Quoted(Fmt(Get(detail, "endTime", Unknown))), TRUE),
              Field("Link to Event", aws_health_url, FALSE) >>])

----------------------------------------------------------------------------
(* AWS Backup: the field parser and the formatter *)

\* field_names, in iteration order: the literal each pattern starts with and
\* whether the pattern ends with [.]  (the text is one line: .* stops at no
\* newline)
field_names == <<
    [name |-> "BackupJob ID",
     label |-> <<"BackupJob", " ", "ID", " ", ":", " ">>, dot |-> FALSE],
    [name |-> "Resource ARN",
     label |-> <<"Resource", " ", "ARN", " ", ":", " ">>, dot |-> TRUE],
    [name |-> "Recovery point ARN",
     label |-> <<"Recovery", " ", "point", " ", "ARN", ":", " ">>, dot |-> TRUE] >>

\* the index of the last "." chunk of toks, 0 when there is none
LastDot(toks) ==
    IF ~Contains(toks, ".") THEN 0
    ELSE CHOOSE i \in 1..Len(toks) :
            toks[i] = "." /\ \A j \in (i+1)..Len(toks) : toks[j] /= "."

\* re.search(freg, message).group(0), <<>> when there is no match: from the
\* first occurrence of the label, greedily, to the end of the text or to its
\* last period
Search(message, f) ==
    LET i == IndexOf(message, f.label)
        end == IF f.dot THEN LastDot(message) ELSE Len(message)
    IN  IF i = 0 \/ end < i + Len(f.label) - 1 + (IF f.dot THEN 1 ELSE 0)
        THEN <<>>
        ELSE SubSeq(message, i, end)

\* the message after one matched field: message.replace(match.group(0), "")
RemoveMatchedKeep(message, match) == message
RemoveMatched(message, match) == Replace(message, match, <<>>)

\* value = match.group(0).split(" ")[-1]; value.removesuffix(".")
FieldValue(match) == Concat(RemoveSuffixDot(SplitLast(match, " ")))

RECURSIVE ParseLoop(_, _, _)
\* the for loop of aws_backup_field_parser over the remaining patterns
ParseLoop(message, fields, names) ==
    IF names = <<>> THEN fields
    ELSE LET match == Search(message, Head(names))
         IN  IF match /= <<>>
             THEN ParseLoop(RemoveMatched(message, match),
                            Append(fields, <<Head(names).name, FieldValue(match)>>),
                            Tail(names))
             ELSE ParseLoop(message, fields, Tail(names))

\* aws_backup_field_parser(message): the (name, value) entries in insertion order
aws_backup_field_parser(message) == ParseLoop(message, <<>>, field_names)

RECURSIVE BackupFieldRows(_)
BackupFieldRows(backup_fields) ==
    IF backup_fields = <<>> THEN <<>>
    ELSE << [value |-> Head(backup_fields)[1], short |-> FALSE],
            [value |-> Quoted(Head(backup_fields)[2]), short |-> FALSE] >>
         \o BackupFieldRows(Tail(backup_fields))

\* format_aws_backup(message) for the chunks of a str
format_aws_backup(message) ==
    LET title0 == SplitFirst(message, ".")
        title1 == IF Contains(title0, "failed")
                  THEN WarningGlyph \o Concat(title0) ELSE Concat(title0)
        title == IF Contains(title0, "completed")
                 THEN CheckGlyph \o title1 ELSE title1
    IN  Ok([fields |-> <<[title |-> title]>>
                       \o BackupFieldRows(aws_backup_field_parser(message))])

----------------------------------------------------------------------------
(* the default formatter *)

\* len(value) < 25
ShortBelow == 25

\* value = json.dumps(v) if isinstance(v, (dict, list)) else str(v)
DefaultValue(v) == IF v.t \in {"dict", "list"} THEN json_dumps(v) ELSE Fmt(v)

\* bool(subject): None and "" are false
Truthy(v) == ~(v.t = "none" \/ (v.t = "str" /\ Concat(v.toks) = ""))

\* the field list of format_default
DefaultFields(message) ==
    IF message.t = "dict"
    THEN [i \in 1..Len(message.items) |->
            Field(message.items[i][1],
                  Quoted(DefaultValue(message.items[i][2])),
                  Len(DefaultValue(message.items[i][2])) < ShortBelow)]
    ELSE << [value |-> IF message.t = "str" THEN Concat(message.toks) ELSE message,
             short |-> FALSE] >>

format_default(message, subject) ==
    LET title == IF Truthy(subject) THEN Fmt(subject) ELSE "Message"
        fields == DefaultFields(message)
    IN  IF fields /= <<>>
        THEN Ok([fallback |-> "A new message", text |-> "AWS notification",
                 title |-> title, mrkdwn_in |-> <<"value">>, fields |-> fields])
        ELSE Ok([fallback |-> "A new message", text |-> "AWS notification",
                 title |-> title, mrkdwn_in |-> <<"value">>])

----------------------------------------------------------------------------
(* the S3 object notification formatter *)

\* class S3ObjectNotificationCategory(Enum)
S3ObjectNotificationCategory ==
    [TestEvent |-> "good",
     ObjectCreated_Put |-> "good",
     ObjectCreated_Post |-> "good",
     ObjectCreated_Copy |-> "good",
     ObjectCreated_CompleteMultipartUpload |-> "good",
     ObjectRemoved_Delete |-> "danger",
     ObjectRemoved_DeleteMarkerCreated |-> "danger",
     ObjectRestore_Post |-> "good",
     ObjectRestore_Completed |-> "good",
     ObjectRestore_Delete |-> "danger",
     ReducedRedundancyLostObject |-> "danger",
     Replication_OperationFailedReplication |-> "danger",
     Replication_OperationMissedThreshold |-> "danger",
     Replication_OperationReplicatedAfterThreshold |-> "warning",
     Replication_OperationNotTracked |-> "danger",
     LifecycleExpiration_Delete |-> "danger",
     LifecycleExpiration_DeleteMarkerCreated |-> "danger",
     LifecycleTransition |-> "warning",
     IntelligentTiering |-> "warning",
     ObjectTagging_Put |-> "warning",
     ObjectTagging_Delete |-> "warning",
     ObjectAcl_Put |-> "warning"]

\* record["eventName"].replace(":", "_")
EnumKey(event_name) == Str(Replace(event_name.toks, <<":">>, <<"_">>))

\* s.split(":")[-1] of a value: AttributeError unless it is a str
LastSegmentErr(v) == IF v.t = "str" THEN "none" ELSE "AttributeError"
LastSegment(v) == Concat(SplitLast(v.toks, ":"))

\* record["Records"][0]
FirstRecordErr(message) ==
    Then(Need(message, "Records"),
    Then(IF Lookup(message, "Records").t \notin {"list", "str"} THEN "TypeError"
         ELSE "none",
    Then(IF Lookup(message, "Records").t = "list"
            /\ Lookup(message, "Records").items = <<>> THEN "IndexError"
         ELSE "none",
         "none")))
FirstRecord(message) == Lookup(message, "Records").items[1]

\* the core of format_s3_object_notification (lines 365 to 390): its errors
S3CoreErr(record) ==
    Then(PathErr(record, <<"eventName">>),
    Then(PathErr(record, <<"eventTime">>),
    Then(PathErr(record, <<"s3", "bucket", "name">>),
    Then(PathErr(record, <<"awsRegion">>),
    Then(PathErr(record, <<"s3", "object", "key">>),
    Then(PathErr(record, <<"requestParameters", "sourceIPAddress">>),
    Then(PathErr(record, <<"userIdentity", "principalId">>),
    Then(LastSegmentErr(At(record, <<"userIdentity", "principalId">>)),
    Then(IF At(record, <<"eventName">>).t /= "str" THEN "AttributeError"
         ELSE EnumErr(S3ObjectNotificationCategory,
                      EnumKey(At(record, <<"eventName">>))),
         "none")))))))))

S3CoreFields(record) ==
    LET event_name == Fmt(At(record, <<"eventName">>))
        bucket_name == Fmt(At(record, <<"s3", "bucket", "name">>))
        region == Fmt(At(record, <<"awsRegion">>))
        object_key == Fmt(At(record, <<"s3", "object", "key">>))
        object_url == "https://s3.console.aws.amazon.com/s3/object/" \o bucket_name
                        \o "?region=" \o region \o "&prefix=" \o object_key
    IN  << Field("Event Name", Quoted(event_name), TRUE),
           Field("Event Time", Quoted(Fmt(At(record, <<"eventTime">>))), TRUE),
           Field("Region", Quoted(region), TRUE),
           Field("Bucket Name", Quoted(bucket_name), TRUE),
           Field("Object Key", Quoted(object_key), FALSE),
           Field("Object URL", "<" \o object_url \o "|Link>", FALSE),
           Field("Source IP Address",
                 Quoted(Fmt(At(record, <<"requestParameters", "sourceIPAddress">>))),
                 TRUE),
           Field("User Identity",
                 Quoted(LastSegment(At(record, <<"userIdentity", "principalId">>))),
                 TRUE) >>

\* k in d for the `if "..." in ...` tests: a key of a dict, a chunk of a str,
\* an element of a list
In(k, v) ==
    CASE v.t = "dict" -> HasKey(v, k)
      [] v.t = "str"  -> Contains(v.toks, k)
      [] v.t = "list" -> \E i \in 1..Len(v.items) : EqStr(v.items[i], k)
      [] OTHER -> FALSE
InErr(v) == IF v.t \in {"dict", "str", "list"} THEN "none" ELSE "TypeError"

\* one conditional group: [present, err, fields]
Group(present, err, fields) ==
    IF ~present THEN [err |-> "none", fields |-> <<>>]
    ELSE IF err /= "none" THEN [err |-> err, fields |-> <<>>]
    ELSE [err |-> "none", fields |-> fields]

SizeGroup(record) ==
    Group(In("size", At(record, <<"s3", "object">>)),
          PathErr(record, <<"s3", "object", "size">>),
          << Field("Object Size (Bytes)",
                   Quoted(Fmt(At(record, <<"s3", "object", "size">>))), FALSE) >>)

GlacierData == <<"glacierEventData", "restoreEventData", "lifecycleRestorationExpiryTime">>

GlacierGroup(record) ==
    Group(In("glacierEventData", record),
          Then(PathErr(record, GlacierData),
          Then(PathErr(At(record, GlacierData), <<"lifecycleRestorationExpiryTime">>),
          Then(PathErr(At(record, GlacierData), <<"lifecycleRestoreStorageClass">>),
               "none"))),
          << Field("Lifecycle Restoration Expiry Time",
                   Quoted(Fmt(At(At(record, GlacierData),
                                 <<"lifecycleRestorationExpiryTime">>))), FALSE),
             Field("Lifecycle Restore Storage Class",
                   Quoted(Fmt(At(At(record, GlacierData),
                                 <<"lifecycleRestoreStorageClass">>))), FALSE) >>)

ReplicationGroup(record) ==
    LET data == At(record, <<"replicationEventData">>)
    IN  Group(In("replicationEventData", record),
          Then(PathErr(data, <<"replicationRuleId">>),
          Then(PathErr(data, <<"destinationBucket">>),
          Then(LastSegmentErr(At(data, <<"destinationBucket">>)),
          Then(PathErr(data, <<"requestTime">>),
          Then(PathErr(data, <<"s3Operation">>),
          Then(PathErr(data, <<"failureReason">>),
               "none")))))),
          << Field("Replication Rule Name",
                   Quoted(Fmt(At(data, <<"replicationRuleId">>))), TRUE),
             Field("Destination Bucket",
                   Quoted(LastSegment(At(data, <<"destinationBucket">>))), TRUE),
             Field("Request Time", Quoted(Fmt(At(data, <<"requestTime">>))), FALSE),
             Field("Operation", Quoted(Fmt(At(data, <<"s3Operation">>))), TRUE),
             Field("Failure Reason",
                   Quoted(Fmt(At(data, <<"failureReason">>))), FALSE) >>)

TieringGroup(record) ==
    LET data == At(record, <<"intelligentTieringEventData">>)
    IN  Group(In("intelligentTieringEventData", record),
          Then(PathErr(data, <<"tieringId">>),
          Then(PathErr(data, <<"tieringStatus">>), "none")),
          << Field("Tiering Name", Quoted(Fmt(At(data, <<"tieringId">>))), TRUE),
             Field("Tiering Status",
                   Quoted(Fmt(At(data, <<"tieringStatus">>))), TRUE) >>)

LifecycleGroup(record) ==
    LET data == At(record, <<"lifecycleEventData">>)
    IN  Group(In("lifecycleEventData", record),
          Then(PathErr(data, <<"lifecycleTransitionAgeDays">>),
          Then(PathErr(data, <<"lifecycleTransitionStorageClass">>), "none")),
          << Field("Lifecycle Transition Age Days",
                   Quoted(Fmt(At(data, <<"lifecycleTransitionAgeDays">>))), TRUE),
             Field("Lifecycle Transition Storage Class",
                   Quoted(Fmt(At(data, <<"lifecycleTransitionStorageClass">>))),
                   TRUE) >>)

\* the conditional groups, in the order of lines 392 to 425
S3Groups(record) ==
    << SizeGroup(record), GlacierGroup(record), ReplicationGroup(record),
       TieringGroup(record), LifecycleGroup(record) >>

RECURSIVE GroupsErr(_)
GroupsErr(groups) ==
    IF groups = <<>> THEN "none"
    ELSE Then(Head(groups).err, GroupsErr(Tail(groups)))

RECURSIVE GroupsFields(_)
GroupsFields(groups) ==
    IF groups = <<>> THEN <<>>
    ELSE Head(groups).fields \o GroupsFields(Tail(groups))

S3Err(message) ==
    Then(FirstRecordErr(message),
    Then(IF Lookup(message, "Records").t = "str" THEN "TypeError" ELSE "none",
    Then(S3CoreErr(FirstRecord(message)),
    Then(GroupsErr(S3Groups(FirstRecord(message))),
         "none"))))

format_s3_object_notification(message) ==
    IF S3Err(message) /= "none" THEN Raise(S3Err(message))
    ELSE
    LET record == FirstRecord(message)
        event_name == Fmt(At(record, <<"eventName">>))
    IN  Ok([color |-> S3ObjectNotificationCategory[
                        Fmt(EnumKey(At(record, <<"eventName">>)))],
            fallback |-> "Alarm " \o event_name \o " triggered",
            fields |-> S3CoreFields(record) \o GroupsFields(S3Groups(record)),
            text |-> "*New Amazon S3 Object Notification Event*"])

----------------------------------------------------------------------------
(* get_slack_message_payload: the classifier *)

\* os.environ["SLACK_CHANNEL"], ["SLACK_USERNAME"], ["SLACK_EMOJI"]
slack_channel == S("#alerts")
slack_username == S("aws-bot")
slack_emoji == S(":aws:")

Envelope ==
    Dict(<< <<"channel", slack_channel>>, <<"username", slack_username>>,
            <<"icon_emoji", slack_emoji>> >>)

\* lines 483 to 489: a str is replaced by what it decodes to, when it decodes
Decoded(message) ==
    IF IsStr(message) /\ json_loads(message).ok THEN json_loads(message).val
    ELSE message

\* message.get("Records")[0].get("eventSource") of line 512: its errors
EventSourceErr(message) ==
    LET records == Get(message, "Records", None)
    IN  Then(IF records.t \in {"none", "num"} THEN "TypeError" ELSE "none",
        Then(IF records.t = "dict" THEN "KeyError" ELSE "none",
        Then(IF records.t = "list" /\ records.items = <<>> THEN "IndexError"
             ELSE "none",
        Then(IF records.t = "str" /\ records.toks = <<>> THEN "IndexError"
             ELSE "none",
        Then(IF records.t = "str" \/ ~IsDict(records.items[1])
             THEN "AttributeError" ELSE "none",
             "none")))))
EventSource(message) == Get(Lookup(message, "Records").items[1], "eventSource", None)

BackupSubject == "Notification from AWS Backup"

\* the if / elif chain of lines 491 to 520: the number of the branch taken
\* (1 alarm, 2 GuardDuty, 3 Health, 4 Backup, 5 S3, 6 merge, 7 default), or
\* the exception a test raises
BranchPreformattedFirst(message, subject) ==
    IF InErr(message) /= "none" THEN Raise(InErr(message))
    ELSE IF In("attachments", message) \/ In("text", message) THEN Ok(6)
    ELSE IF In("AlarmName", message) THEN Ok(1)
    ELSE IF IsDict(message)
            /\ EqStr(Get(message, "detail-type", None), "GuardDuty Finding")
    THEN Ok(2)
    ELSE IF IsDict(message)
            /\ EqStr(Get(message, "detail-type", None), "AWS Health Event")
    THEN Ok(3)
    ELSE IF EqStr(subject, BackupSubject) THEN Ok(4)
    ELSE IF IsDict(message) /\ EventSourceErr(message) /= "none"
    THEN Raise(EventSourceErr(message))
    ELSE IF IsDict(message) /\ EqStr(EventSource(message), "aws:s3") THEN Ok(5)
    ELSE Ok(7)
Branch(message, subject) ==
    IF InErr(message) /= "none" THEN Raise(InErr(message))
    ELSE IF In("AlarmName", message) THEN Ok(1)
    ELSE IF IsDict(message)
            /\ EqStr(Get(message, "detail-type", None), "GuardDuty Finding")
    THEN Ok(2)
    ELSE IF IsDict(message)
            /\ EqStr(Get(message, "detail-type", None), "AWS Health Event")
    THEN Ok(3)
    ELSE IF EqStr(subject, BackupSubject) THEN Ok(4)
    ELSE IF IsDict(message) /\ EventSourceErr(message) /= "none"
    THEN Raise(EventSourceErr(message))
    ELSE IF IsDict(message) /\ EqStr(EventSource(message), "aws:s3") THEN Ok(5)
    ELSE IF In("attachments", message) \/ In("text", message) THEN Ok(6)
    ELSE Ok(7)

\* the formatter call of the branch taken (branch 6 calls none)
Notification(branch, message, region, subject) ==
    CASE branch = 1 -> format_cloudwatch_alarm(message, region)
      [] branch = 2 ->
            IF Need(message, "region") /= "none" THEN Raise(Need(message, "region"))
            ELSE format_guardduty_finding(message, Lookup(message, "region"))
      [] branch = 3 ->
            IF Need(message, "region") /= "none" THEN Raise(Need(message, "region"))
            ELSE format_aws_health(message, Lookup(message, "region"))
      [] branch = 4 -> format_aws_backup(StrToks(message))
      [] branch = 5 -> format_s3_object_notification(message)
      [] branch = 7 -> format_default(message, subject)

\* get_slack_message_payload(message, region, subject)
get_slack_message_payload(message0, region, subject) ==
    LET message == Decoded(message0)
        branch == Branch(message, subject)
    IN  IF ~branch.ok THEN branch
        ELSE IF branch.val = 6
        THEN IF IsDict(message) THEN Ok(DictMerge(Envelope, message))
             ELSE Raise("TypeError")
        ELSE LET notification == Notification(branch.val, message, region, subject)
             IN  IF ~notification.ok THEN notification
                 ELSE Ok(DictSet(Envelope, "attachments",
                                 List(<<notification.val>>)))

----------------------------------------------------------------------------
(* send_slack_notification: the delivery client *)

\* what urllib.request.urlopen can do with one POST: answer 2xx, raise
\* HTTPError for any other final status, or raise URLError (no connection)
Outcomes ==
    {[kind |-> "response", code |-> c] : c \in {200, 204}}
    \cup {[kind |-> "HTTPError", code |-> c] : c \in {404, 500}}
    \cup {[kind |-> "URLError", code |-> 0]}

\* json.dumps({"code": code, "info": info})
Result(code) ==
    JsonStr(Dict(<< <<"code", Num(code)>>, <<"info", S("headers")>> >>))

\* lines 536 to 538: the address the POST goes to; "" after a failed decrypt
ResolveUrl(env_url, decrypt_ok) ==
    IF env_url = "http" THEN "http"
    ELSE IF decrypt_ok THEN "http" ELSE ""

\* whether urlopen is reached: Request("") raises ValueError (unknown url type)
Posted(url) == url /= ""

\* lines 543 to 549 for one outcome of urlopen
DeliverNoExcept(outcome) ==
    IF outcome.kind = "response" THEN Ok(Result(outcome.code))
    ELSE Raise(outcome.kind)
Deliver(outcome) ==
    IF outcome.kind \in {"response", "HTTPError"} THEN Ok(Result(outcome.code))
    ELSE Raise(outcome.kind)

\* send_slack_notification(payload) for one address and one outcome
send_slack_notification(p, url, outcome) ==
    IF ~Posted(url) THEN Raise("ValueError") ELSE Deliver(outcome)

----------------------------------------------------------------------------
(* lambda_handler *)

S3Subject == S("New Amazon S3 Object Event Notification")

\* region = sns["TopicArn"].split(":")[3]
ArnSegments == 4

\* lines 565 to 568: the first exception of the try block
SnsErr(record) ==
    LET sns == Lookup(record, "Sns")
    IN  Then(Need(record, "Sns"),
        Then(Need(sns, "Subject"),
        Then(Need(sns, "Message"),
        Then(Need(sns, "TopicArn"),
        Then(IF Lookup(sns, "TopicArn").t /= "str" THEN "AttributeError"
             ELSE "none",
        Then(IF Len(Split(Lookup(sns, "TopicArn").toks, ":")) < ArnSegments
             THEN "IndexError" ELSE "none",
             "none"))))))

\* lines 564 to 572: (subject, message, region) of a record
Extract(record) ==
    IF SnsErr(record) = "none"
    THEN LET sns == Lookup(record, "Sns")
         IN  Ok([subject |-> Lookup(sns, "Subject"),
                 message |-> Lookup(sns, "Message"),
                 region |-> Str(Split(Lookup(sns, "TopicArn").toks, ":")[ArnSegments])])
    ELSE IF SnsErr(record) = "KeyError"
    THEN IF Need(record, "awsRegion") /= "none"
         THEN Raise(Need(record, "awsRegion"))
         ELSE Ok([subject |-> S3Subject, message |-> record,
                  region |-> Lookup(record, "awsRegion")])
    ELSE Raise(SnsErr(record))

\* lines 564 to 576 for one record: the send payload, or the exception
Prepare(record) ==
    IF ~Extract(record).ok THEN Extract(record)
    ELSE get_slack_message_payload(Extract(record).val.message,
                                   Extract(record).val.region,
                                   Extract(record).val.subject)

HttpOk == 200

\* json.loads(response)["code"]
Code(resp) == Lookup(json_loads(resp).val, "code").n

----------------------------------------------------------------------------
(* the inputs: messages, subjects, envelope records and batches *)

\* the longest batch of several records
MaxRecords == 2

Words(ws) ==
    Str([i \in 1..(2 * Len(ws) - 1) |-> IF i % 2 = 1 THEN ws[(i + 1) \div 2] ELSE " "])

Regions == {<<"us-east-1">>, <<"us-gov-", "west-1">>}

TopicArn(region) ==
    Str(<<"arn", ":", "aws", ":", "sns", ":">> \o region
        \o <<":", "123456789012", ":", "alerts">>)

SnsRecord(subject, message, region) ==
    Dict(<< <<"EventSource", S("aws:sns")>>,
            <<"Sns", Dict(<< <<"Subject", subject>>, <<"Message", message>>,
                             <<"TopicArn", TopicArn(region)>> >>)>> >>)

Alarm(name, state) ==
    << <<"AlarmName", name>>,
       <<"AlarmDescription", Words(<<"CPU", "too", "high">>)>>,
       <<"NewStateValue", state>>,
       <<"NewStateReason", Words(<<"threshold", "breached">>)>>,
       <<"OldStateValue", S("OK")>> >>

AlarmStates == {"OK", "INSUFFICIENT_DATA", "ALARM", "UNKNOWN", "alarm"}

AlarmMessages ==
    {Dict(Alarm(S("cpu-high"), S(st))) : st \in AlarmStates}
    \cup {Dict(Alarm(Words(<<"disk", "full">>), S("OK"))),
          Dict(Alarm(S("cpu-high"), S("ALARM"))
               \o << <<"attachments", List(<<>>)>>, <<"text", S("raw")>> >>),
          Dict(<< <<"attachments", List(<<>>)>> >> \o Alarm(S("cpu-high"), S("OK"))),
          Dict(Alarm(S("cpu-high"), S("ALARM"))
               \o << <<"detail-type", S("GuardDuty Finding")>> >>),
          Dict(<< <<"AlarmName", S("cpu-high")>>, <<"NewStateValue", S("ALARM")>> >>),
          Dict(<< <<"AlarmName", S("cpu-high")>>, <<"text", S("raw")>> >>)}

S3Record(event_name) ==
    Dict(<< <<"eventSource", S("aws:s3")>>,
            <<"awsRegion", S("eu-west-1")>>,
            <<"eventTime", S("2024-01-01T00:00:00Z")>>,
            <<"eventName", Str(event_name)>>,
            <<"userIdentity", Dict(<< <<"principalId",
                                        Str(<<"AWS", ":", "AIDA", ":", "alice">>)>> >>)>>,
            <<"requestParameters", Dict(<< <<"sourceIPAddress", S("10.0.0.1")>> >>)>>,
            <<"s3", Dict(<< <<"bucket", Dict(<< <<"name", S("logs")>> >>)>>,
                            <<"object", Dict(<< <<"key", S("a.txt")>>,
                                                <<"size", Num(12)>> >>)>> >>)>> >>)

OtherRecord == Dict(<< <<"eventSource", S("aws:ses")>> >>)

\* the optional sub-objects of an S3 record, as S3 event notifications carry them
GroupNames == {"size", "glacier", "replication", "tiering", "lifecycle"}

GlacierEventData ==
    Dict(<< <<"restoreEventData",
              Dict(<< <<"lifecycleRestorationExpiryTime", S("2024-02-01T00:00:00Z")>>,
                      <<"lifecycleRestoreStorageClass", S("GLACIER")>> >>)>> >>)

ReplicationEventData ==
    Dict(<< <<"replicationRuleId", S("rule-1")>>,
            <<"destinationBucket", Str(<<"arn", ":", "aws", ":", "s3", ":", ":",
                                         ":", "replica">>)>>,
            <<"s3Operation", S("OBJECT_PUT")>>,
            <<"requestTime", S("2024-01-01T00:00:01Z")>>,
            <<"failureReason", S("DstBucketNotFound")>> >>)

IntelligentTieringEventData ==
    Dict(<< <<"tieringId", S("archive")>>, <<"tieringStatus", S("Enabled")>> >>)

LifecycleEventData ==
    Dict(<< <<"lifecycleTransitionAgeDays", Num(30)>>,
            <<"lifecycleTransitionStorageClass", S("STANDARD_IA")>> >>)

\* an S3 record with the core keys and the sub-objects named in groups
S3RecordWith(event_name, groups) ==
    Dict(<< <<"eventSource", S("aws:s3")>>,
            <<"awsRegion", S("eu-west-1")>>,
            <<"eventTime", S("2024-01-01T00:00:00Z")>>,
            <<"eventName", Str(event_name)>>,
            <<"userIdentity", Dict(<< <<"principalId",
                                        Str(<<"AWS", ":", "AIDA", ":", "alice">>)>> >>)>>,
            <<"requestParameters", Dict(<< <<"sourceIPAddress", S("10.0.0.1")>> >>)>>,
            <<"s3", Dict(<< <<"bucket", Dict(<< <<"name", S("logs")>> >>)>>,
                            <<"object",
                              Dict(<< <<"key", S("a.txt")>> >>
                                   \o (IF "size" \in groups
                                       THEN << <<"size", Num(12)>> >> ELSE <<>>))>>
                         >>)>> >>
         \o (IF "lifecycle" \in groups
             THEN << <<"lifecycleEventData", LifecycleEventData>> >> ELSE <<>>)
         \o (IF "glacier" \in groups
             THEN << <<"glacierEventData", GlacierEventData>> >> ELSE <<>>)
         \o (IF "tiering" \in groups
             THEN << <<"intelligentTieringEventData", IntelligentTieringEventData>> >>
             ELSE <<>>)
         \o (IF "replication" \in groups
             THEN << <<"replicationEventData", ReplicationEventData>> >> ELSE <<>>))

\* S3 notifications with every subset of the optional sub-objects
S3GroupMessages ==
    {Dict(<< <<"Records", List(<<S3RecordWith(<<"ObjectRestore", ":", "Completed">>,
                                              g)>>)>> >>) : g \in SUBSET GroupNames}

Finding(severity) ==
    << <<"detail-type", S("GuardDuty Finding")>>,
       <<"region", S("us-west-2")>>,
       <<"detail", Dict(<< <<"severity", Num(severity)>>, <<"title", S("t")>>,
                           <<"description", S("d")>>, <<"type", S("ty")>>,
                           <<"id", S("1")>>, <<"accountId", S("a")>>,
                           <<"service", Dict(<< <<"eventFirstSeen", S("x")>>,
                                                <<"eventLastSeen", S("y")>>,
                                                <<"count", Num(2)>> >>)>> >>)>> >>

Severities == {39, 40, 69, 70, 80}

FindingMessages ==
    {Dict(Finding(sv)) : sv \in Severities}
    \cup {Dict(Finding(80) \o << <<"Records", List(<<S3Record(<<"TestEvent">>)>>)>>,
                                 <<"attachments", List(<<>>)>> >>),
          Dict(<< <<"detail-type", S("GuardDuty Finding")>> >>)}

Health(category) ==
    << <<"detail-type", S("AWS Health Event")>>,
       <<"region", S("us-east-1")>>,
       <<"resources", List(<<S("i-1"), S("i-2")>>)>>,
       <<"detail", Dict(<< <<"eventTypeCategory", S(category)>>,
                           <<"service", S("EC2")>>,
                           <<"eventTypeCode", S("AWS_EC2_ISSUE")>>,
                           <<"eventDescription",
                             List(<<Dict(<< <<"latestDescription", S("down")>> >>)>>)>>
                        >>)>> >>

HealthMessages ==
    {Dict(Health(c)) : c \in {"issue", "scheduledChange", "investigation"}}
    \cup {Dict(Health("issue") \o << <<"text", S("raw")>> >>),
          Dict(<< <<"detail-type", S("AWS Health Event")>>,
                  <<"region", S("us-east-1")>>,
                  <<"detail", Dict(<< <<"eventTypeCategory", S("issue")>>,
                                      <<"eventDescription",
                                        List(<<Dict(<< <<"latestDescription",
                                                         S("down")>> >>)>>)>> >>)>> >>)}

S3Messages ==
    {Dict(<< <<"Records", List(<<S3Record(<<"ObjectCreated", ":", "Put">>)>>)>> >>),
     Dict(<< <<"Records", List(<<S3Record(<<"ObjectRemoved", ":", "Delete">>),
                                 S3Record(<<"TestEvent">>)>>)>>,
             <<"text", S("raw")>> >>),
     Dict(<< <<"Records", List(<<S3Record(<<"ObjectCreated", ":", "Moved">>)>>)>> >>)}

PreformattedMessages ==
    {Dict(<< <<"text", S("hello")>> >>),
     Dict(<< <<"attachments", List(<<Dict(<< <<"text", S("hi")>> >>)>>)>>,
             <<"channel", S("#other")>> >>),
     Dict(<< <<"Records", List(<<OtherRecord>>)>>, <<"text", S("hello")>>,
             <<"channel", S("#other")>> >>),
     Dict(<< <<"attachments", List(<<Dict(<< <<"text", S("hi")>> >>)>>)>>,
             <<"Records", List(<<OtherRecord>>)>> >>)}

PlainMessages ==
    {Dict(<< <<"foo", S("bar")>>, <<"count", Num(5)>> >>),
     Dict(<< <<"zeta", S("123456789012345678901234")>>,
             <<"Records", List(<<OtherRecord>>)>>,
             <<"alpha", S("1234567890123456789012345")>>,
             <<"nested", Dict(<< <<"a", List(<<Num(1), None>>)>> >>)>>,
             <<"count", Num(5)>> >>),
     Dict(<< <<"Records", List(<<>>)>>, <<"foo", S("bar")>> >>),
     Dict(<< <<"Records", S("none")>> >>),
     Dict(<<>>)}

\* messages that are not JSON
TextMessages ==
    {Words(<<"disk", "is", "full">>),
     Words(<<"see", "text", "below">>),
     Words(<<"AlarmName", "cpu-high", "fired">>),
     Words(<<"two", "attachments", "dropped">>),
     Str(<<>>)}

Messages ==
    {JsonStr(m) : m \in AlarmMessages \cup FindingMessages \cup HealthMessages
                        \cup S3Messages \cup PreformattedMessages \cup PlainMessages}
    \cup {JsonStr(Num(5)), JsonStr(S("quoted"))}
    \cup TextMessages

Subjects == {None, S(""), S("Alert"), S(BackupSubject)}


\* AWS Backup notification texts: a headline, then any of the three fields in
\* any order, separated by single spaces
JobLabel == field_names[1].label
ResourceLabel == field_names[2].label
RecoveryLabel == field_names[3].label

JobSegments == {JobLabel \o <<"job-1">>, JobLabel \o <<"job-1", ".">>}
ResourceSegments ==
    {ResourceLabel \o <<"arn:aws:ec2:1", ".">>,
     ResourceLabel \o <<"arn:aws:ec2:vol", ".", "1", ".">>}
RecoverySegments == {RecoveryLabel \o <<"arn:aws:ec2:snap", ".">>}

SegmentsOf(name) ==
    CASE name = "job" -> JobSegments
      [] name = "resource" -> ResourceSegments
      [] name = "recovery" -> RecoverySegments

Headlines ==
    {<<"An", " ", "AWS", " ", "Backup", " ", "job", " ", "was", " ", "completed", ".">>,
     <<"Backup", " ", "job", " ", "failed", ".">>}

\* the orders in which distinct fields can follow the headline
FieldOrders ==
    {o \in UNION {[1..n -> {"job", "resource", "recovery"}] : n \in 0..3} :
        \A i, j \in 1..Len(o) : i /= j => o[i] /= o[j]}

RECURSIVE BackupBodies(_)
BackupBodies(order) ==
    IF order = <<>> THEN {<<>>}
    ELSE {<<" ">> \o seg \o rest :
            seg \in SegmentsOf(Head(order)), rest \in BackupBodies(Tail(order))}

BackupTexts ==
    {Str(h \o b) : h \in {<<"Backup", " ", "job", " ", "completed", ".">>},
                   b \in UNION {BackupBodies(o) : o \in FieldOrders}}
    \cup {Str(h) : h \in Headlines}
    \cup {Str(<<"Backup", " ", "job", " ", "completed", ".", " ">>
              \o ResourceLabel \o <<"arn:aws:ec2:1", ".", " ">>)}

\* records that carry no Sns block: an S3 record, and one with no awsRegion
BareRecords ==
    {S3Record(<<"ObjectCreated", ":", "Put">>), OtherRecord,
     S3RecordWith(<<"ObjectRemoved", ":", "Delete">>, {}),
     S3RecordWith(<<"LifecycleTransition">>, {"size", "lifecycle"})}

Records ==
    {SnsRecord(sub, m, <<"us-east-1">>) : sub \in Subjects, m \in Messages}
    \cup {SnsRecord(S(BackupSubject), m, <<"us-east-1">>) : m \in BackupTexts}
    \cup {SnsRecord(S("Alert"), JsonStr(m), <<"us-gov-", "west-1">>) :
            m \in {Dict(Alarm(S("cpu-high"), S("OK")))} \cup {Dict(Finding(80))}}
    \cup BareRecords
    \cup {SnsRecord(S("Alert"), JsonStr(m), <<"us-east-1">>) : m \in S3GroupMessages}
    \cup {Dict(<< <<"Sns", Dict(<< <<"Message", S("no subject")>> >>)>> >>),
          Dict(<< <<"Sns", Dict(<< <<"Subject", None>>, <<"Message", S("short arn")>>,
                                   <<"TopicArn", Str(<<"arn", ":", "aws">>)>> >>)>> >>)}

\* the records the batches of several records are made of
BatchRecords ==
    {SnsRecord(S("Alert"), JsonStr(Dict(Alarm(S("cpu-high"), S("ALARM")))), <<"us-east-1">>),
     SnsRecord(S("Alert"), JsonStr(Dict(Alarm(S("cpu-high"), S("UNKNOWN")))), <<"us-east-1">>),
     SnsRecord(None, Words(<<"disk", "is", "full">>), <<"us-east-1">>),
     SnsRecord(None, Words(<<"see", "text", "below">>), <<"us-east-1">>),
     SnsRecord(None, JsonStr(Dict(<< <<"text", S("hello")>> >>)), <<"us-east-1">>),
     SnsRecord(None, JsonStr(Dict(<< <<"Records", List(<<OtherRecord>>)>>,
                                    <<"text", S("hello")>> >>)), <<"us-east-1">>),
     SnsRecord(S(BackupSubject), Str(<<"Backup", " ", "job", " ", "failed", ".">>),
               <<"us-east-1">>),
     S3Record(<<"ObjectCreated", ":", "Put">>)}

Batches ==
    {<<r>> : r \in Records}
    \cup UNION {[1..n -> BatchRecords] : n \in 2..MaxRecords}

----------------------------------------------------------------------------
(* the state machine of one invocation *)

Init ==
    /\ event \in Batches
    /\ slack_url \in {"http", "cipher"}
    /\ pc = "classify"
    /\ idx = 1
    /\ payload = None
    /\ response = None
    /\ posts = <<>>
    /\ answer = [kind |-> "none", code |-> 0]
    /\ logged = FALSE
    /\ raised = "none"

\* Classify with the call wrapped in a try that skips a record it cannot format
ClassifySkipping ==
    /\ pc = "classify"
    /\ LET r == Prepare(event[idx])
       IN  IF r.ok
           THEN /\ payload' = r.val
                /\ pc' = "send"
                /\ idx' = idx
           ELSE /\ payload' = payload
                /\ IF idx < Len(event)
                   THEN idx' = idx + 1 /\ pc' = "classify"
                   ELSE idx' = idx /\ pc' = "raised"
    /\ raised' = IF pc' = "raised" THEN Prepare(event[idx]).err ELSE raised
    /\ UNCHANGED <<event, slack_url, response, posts, answer, logged>>

\* lines 564 to 576 for the record the loop is at
Classify ==
    /\ pc = "classify"
    /\ LET r == Prepare(event[idx])
       IN  IF r.ok
           THEN /\ payload' = r.val
                /\ pc' = "send"
                /\ raised' = raised
           ELSE /\ payload' = payload
                /\ pc' = "raised"
                /\ raised' = r.err
    /\ UNCHANGED <<event, slack_url, idx, response, posts, answer, logged>>

\* line 577 for the record the loop is at, then the loop's next iteration or
\* its end
Send ==
    /\ pc = "send"
    /\ \E decrypt_ok \in BOOLEAN, outcome \in Outcomes :
        LET url == ResolveUrl(slack_url, decrypt_ok)
            r == send_slack_notification(payload, url, outcome)
        IN  /\ posts' = IF Posted(url) THEN Append(posts, payload) ELSE posts
            /\ answer' = IF Posted(url) THEN outcome ELSE answer
            /\ IF r.ok
               THEN /\ response' = r.val
                    /\ raised' = raised
                    /\ IF idx < Len(event)
                       THEN idx' = idx + 1 /\ pc' = "classify"
                       ELSE idx' = idx /\ pc' = "finish"
               ELSE /\ response' = response
                    /\ raised' = r.err
                    /\ idx' = idx
                    /\ pc' = "raised"
    /\ UNCHANGED <<event, slack_url, payload, logged>>

\* lines 579 to 585
Finish ==
    /\ pc = "finish"
    /\ logged' = (Code(response) /= HttpOk)
    /\ pc' = "returned"
    /\ UNCHANGED <<event, slack_url, idx, payload, response, posts, answer, raised>>

Next == Classify \/ Send \/ Finish

Spec == Init /\ [][Next]_vars

----------------------------------------------------------------------------
(* what the properties below speak of *)

\* the subject, message and region lambda_handler takes from record i, and
\* the message after decoding
Subject(i) == Extract(event[i]).val.subject
Region(i) == Extract(event[i]).val.region
RawMessage(i) == Extract(event[i]).val.message
Message(i) == Decoded(RawMessage(i))

\* the exceptions send_slack_notification can end with
SendErrors == {"ValueError", "URLError"}

\* get_slack_message_payload has returned, or raised, for record idx
Classified ==
    /\ Extract(event[idx]).ok
    /\ \/ pc = "send"
       \/ pc = "raised" /\ raised \notin SendErrors

Attachments(p) == Lookup(p, "attachments").items
Titles(fields) == [i \in 1..Len(fields) |-> fields[i].title]

\* the signatures of rules 1 to 5, on a mapping m and a subject
Signature(k, m, subject) ==
    CASE k = 1 -> HasKey(m, "AlarmName")
      [] k = 2 -> EqStr(Get(m, "detail-type", None), "GuardDuty Finding")
      [] k = 3 -> EqStr(Get(m, "detail-type", None), "AWS Health Event")
      [] k = 4 -> EqStr(subject, BackupSubject)
      [] k = 5 -> /\ Get(m, "Records", None).t = "list"
                  /\ Lookup(m, "Records").items /= <<>>
                  /\ IsDict(Lookup(m, "Records").items[1])
                  /\ EqStr(Get(Lookup(m, "Records").items[1], "eventSource", None),
                           "aws:s3")
MatchesSome(m, subject) == \E k \in 1..5 : Signature(k, m, subject)
LowestRule(m, subject) ==
    CHOOSE k \in 1..5 :
        Signature(k, m, subject) /\ \A j \in 1..(k-1) : ~Signature(j, m, subject)

\* C1: for a mapping that satisfies the signature of some rule 1 to 5, the
\* classifier answers with the send envelope plus exactly one attachment, that
\* of the formatter of the lowest-numbered matching rule (or ends with that
\* formatter's exception), whatever other signatures the mapping satisfies;
\* with both AlarmName and attachments keys the payload's keys are the
\* envelope's and "attachments", holding the alarm attachment alone.
C1_ClassifierPriority ==
    (Classified /\ IsDict(Message(idx)) /\ MatchesSome(Message(idx), Subject(idx)))
    => LET m == Message(idx)
           n == Notification(LowestRule(m, Subject(idx)), m, Region(idx), Subject(idx))
       IN  /\ n.ok => /\ pc = "send"
                      /\ payload = DictSet(Envelope, "attachments", List(<<n.val>>))
           /\ ~n.ok => pc = "raised" /\ raised = n.err
           /\ (pc = "send" /\ HasKey(m, "AlarmName") /\ HasKey(m, "attachments"))
              => /\ Keys(payload) = <<"channel", "username", "icon_emoji", "attachments">>
                 /\ Attachments(payload)
                        = <<format_cloudwatch_alarm(m, Region(idx)).val>>
                 /\ Lookup(payload, "channel") = slack_channel

C1_Witness ==
    /\ pc = "send"
    /\ IsDict(Message(idx))
    /\ HasKey(Message(idx), "AlarmName") /\ HasKey(Message(idx), "attachments")
    /\ Attachments(payload)[1].color = "danger"

\* C2 (as claimed): a mapping with an attachments or text key that matches
\* none of rules 1 to 5, with or without a Records list, comes back merged
\* into the envelope, message keys overriding, and nothing raises.
C2_PassThrough ==
    (/\ Classified
     /\ IsDict(Message(idx))
     /\ ~MatchesSome(Message(idx), Subject(idx))
     /\ (HasKey(Message(idx), "attachments") \/ HasKey(Message(idx), "text")))
    => /\ pc = "send"
       /\ payload = DictMerge(Envelope, Message(idx))

\* C3 (as claimed): a mapping that matches none of rules 1 to 6 comes back
\* with exactly one attachment, the default one: a field per top-level key in
\* key order, backtick-quoted, short exactly when the value rendered by str or
\* json.dumps has fewer than 25 characters.
C3_DefaultFallback ==
    (/\ Classified
     /\ IsDict(Message(idx))
     /\ ~MatchesSome(Message(idx), Subject(idx))
     /\ ~HasKey(Message(idx), "attachments") /\ ~HasKey(Message(idx), "text"))
    => /\ pc = "send"
       /\ Len(Attachments(payload)) = 1
       /\ Message(idx).items /= <<>> =>
            LET fields == Attachments(payload)[1].fields
            IN  /\ Titles(fields) = Keys(Message(idx))
                /\ \A i \in 1..Len(fields) :
                    /\ fields[i].value
                         = Quoted(DefaultValue(Message(idx).items[i][2]))
                    /\ fields[i].short
                         = (Len(DefaultValue(Message(idx).items[i][2])) < ShortBelow)

\* C4 (as claimed): a text message that is not JSON never makes the
\* classifier raise; unless the subject is the backup one, the payload carries
\* one default attachment whose only field is the raw text, unlabeled, under
\* the subject or "Message" as title.
C4_MalformedJsonRecovered ==
    (/\ Classified
     /\ IsStr(RawMessage(idx))
     /\ ~json_loads(RawMessage(idx)).ok)
    => /\ pc = "send"
       /\ ~EqStr(Subject(idx), BackupSubject) =>
            /\ Len(Attachments(payload)) = 1
            /\ Attachments(payload)[1].fields
                 = << [value |-> Concat(RawMessage(idx).toks), short |-> FALSE] >>
            /\ Attachments(payload)[1].title
                 = (IF Truthy(Subject(idx)) THEN Fmt(Subject(idx)) ELSE "Message")

\* every record of the batch can be classified and formatted
AllFormat == \A i \in 1..Len(event) : Prepare(event[i]).ok

\* C5 (as claimed): when no record's formatting fails, the handler never
\* ends with an exception; the POSTs made are those of the records in
\* delivery order, one each, the POST of a record made before the next record
\* is classified; and what is returned is the result of the last record's POST.
C5_BatchSequencing ==
    AllFormat
    => /\ pc /= "raised"
       /\ \A j \in 1..Len(posts) : posts[j] = Prepare(event[j]).val
       /\ Len(posts) = (IF pc \in {"classify", "send"} THEN idx - 1 ELSE Len(event))
       /\ pc = "returned" => Code(response) = answer.code

C7_AlwaysResult ==
    /\ raised \notin SendErrors
    /\ (pc \in {"classify", "finish"} /\ idx > 1) => response /= None

AlarmKeys ==
    {"AlarmName", "AlarmDescription", "NewStateReason", "OldStateValue",
     "NewStateValue"}

\* C8: for a mapping with the five alarm keys (string values), the alarm
\* attachment has color good / warning / danger for NewStateValue OK /
\* INSUFFICIENT_DATA / ALARM and the six fields Alarm Name, Alarm Description,
\* Alarm reason, Old State, Current State, Link to Alarm in this order; for
\* any other NewStateValue the call ends with KeyError and nothing is sent
\* for the record.
C8_AlarmAttachment ==
    (Classified /\ IsDict(Message(idx)) /\ HasAll(Message(idx), AlarmKeys))
    => LET state == Lookup(Message(idx), "NewStateValue")
       IN  IF \E st \in {"OK", "INSUFFICIENT_DATA", "ALARM"} : EqStr(state, st)
           THEN /\ pc = "send"
                /\ Len(Attachments(payload)) = 1
                /\ Attachments(payload)[1].color
                     = (CASE EqStr(state, "OK") -> "good"
                          [] EqStr(state, "INSUFFICIENT_DATA") -> "warning"
                          [] EqStr(state, "ALARM") -> "danger")
                /\ Titles(Attachments(payload)[1].fields)
                     = <<"Alarm Name", "Alarm Description", "Alarm reason",
                         "Old State", "Current State", "Link to Alarm">>
           ELSE /\ pc = "raised"
                /\ raised = "KeyError"
                /\ Len(posts) = idx - 1

C8_Witness ==
    /\ pc = "send"
    /\ IsDict(Message(idx)) /\ HasAll(Message(idx), AlarmKeys)
    /\ EqStr(Lookup(Message(idx), "NewStateValue"), "INSUFFICIENT_DATA")
    /\ Attachments(payload)[1].color = "warning"

\* C9: if classifying or formatting record i fails, no POST is made for
\* record i or any later record, the handler never returns a result, and
\* when it has ended with the error the POSTs of records 1..i-1 are all made.
C9_FormattingFailureAborts ==
    /\ \A i \in 1..Len(event) :
        ~Prepare(event[i]).ok
        => /\ Len(posts) < i
           /\ idx <= i
           /\ pc \notin {"finish", "returned"}
    /\ (pc = "raised" /\ raised \notin SendErrors)
       => /\ ~Prepare(event[idx]).ok
          /\ raised = Prepare(event[idx]).err
          /\ Len(posts) = idx - 1
          /\ \A j \in 1..(idx - 1) : posts[j] = Prepare(event[j]).val

C9_Witness ==
    /\ pc = "raised"
    /\ idx = 2
    /\ ~Prepare(event[idx]).ok
    /\ Len(posts) = 1

\* record idx is an AWS Backup notification whose text holds all three labels
BackupText == RawMessage(idx).toks
HasLabel(text, f) == IndexOf(text, f.label) > 0
AllThreeFields ==
    /\ Extract(event[idx]).ok
    /\ EqStr(Subject(idx), BackupSubject)
    /\ RawMessage(idx).t = "str"
    /\ \A k \in 1..Len(field_names) : HasLabel(BackupText, field_names[k])

\* the value token that follows a field's label, without its trailing period
ValueAfter(text, f) ==
    LET rest == SubSeq(text, IndexOf(text, f.label) + Len(f.label), Len(text))
    IN  Concat(RemoveSuffixDot(SplitFirst(rest, " ")))
ExpectedFields(text) ==
    [k \in 1..Len(field_names) |->
        <<field_names[k].name, ValueAfter(text, field_names[k])>>]

\* the rows the backup attachment carries after its headline
ParsedRows == SubSeq(Attachments(payload)[1].fields, 2,
                     Len(Attachments(payload)[1].fields))

\* the fields stand in the order Recovery point ARN, Resource ARN, BackupJob ID
ReverseOrder(text) ==
    /\ IndexOf(text, field_names[3].label) < IndexOf(text, field_names[2].label)
    /\ IndexOf(text, field_names[2].label) < IndexOf(text, field_names[1].label)

\* C10 (as claimed): a text with all three fields, in whatever order, yields
\* exactly three entries, each the value token after its label.
C10_AnyOrder ==
    (pc = "send" /\ AllThreeFields)
    => ParsedRows = BackupFieldRows(ExpectedFields(BackupText))

\* C10 (amended): a text with the three fields in the order Recovery point
\* ARN, Resource ARN, BackupJob ID, separated by single spaces and with the
\* job id ending the line, yields exactly three entries, each the value token
\* after its label without its trailing period.
C10_ReverseOrder ==
    (pc = "send" /\ AllThreeFields /\ ReverseOrder(BackupText))
    => ParsedRows = BackupFieldRows(ExpectedFields(BackupText))

C10_Witness ==
    /\ pc = "send"
    /\ AllThreeFields
    /\ ReverseOrder(BackupText)
    /\ Len(ParsedRows) = 2 * Len(field_names)
    /\ Contains(BackupText, "arn:aws:ec2:vol")

\* the optional groups of the S3 attachment in their fixed order: the
\* sub-object each is read from and, per field, its title and its key
OptionalGroups ==
    << [at |-> <<"s3", "object">>, test |-> "size",
        rows |-> << <<"Object Size (Bytes)", "size">> >>],
       [at |-> <<"glacierEventData", "restoreEventData">>, test |-> "glacierEventData",
        rows |-> << <<"Lifecycle Restoration Expiry Time",
                      "lifecycleRestorationExpiryTime">>,
                    <<"Lifecycle Restore Storage Class",
                      "lifecycleRestoreStorageClass">> >>],
       [at |-> <<"replicationEventData">>, test |-> "replicationEventData",
        rows |-> << <<"Replication Rule Name", "replicationRuleId">>,
                    <<"Destination Bucket", "destinationBucket">>,
                    <<"Request Time", "requestTime">>,
                    <<"Operation", "s3Operation">>,
                    <<"Failure Reason", "failureReason">> >>],
       [at |-> <<"intelligentTieringEventData">>,
        test |-> "intelligentTieringEventData",
        rows |-> << <<"Tiering Name", "tieringId">>,
                    <<"Tiering Status", "tieringStatus">> >>],
       [at |-> <<"lifecycleEventData">>, test |-> "lifecycleEventData",
        rows |-> << <<"Lifecycle Transition Age Days", "lifecycleTransitionAgeDays">>,
                    <<"Lifecycle Transition Storage Class",
                      "lifecycleTransitionStorageClass">> >>] >>

\* the sub-object of group g is present in the record / holds the group's keys
GroupPresent(record, g) ==
    IF g.test = "size" THEN HasKey(At(record, g.at), "size")
    ELSE HasKey(record, g.test)
GroupHoldsKeys(record, g) ==
    \A k \in 1..Len(g.rows) : PathErr(record, g.at \o <<g.rows[k][2]>>) = "none"

\* the title and value of each field of group g, read from its sub-object
GroupRows(record, g) ==
    [k \in 1..Len(g.rows) |->
        LET v == At(record, g.at \o <<g.rows[k][2]>>)
        IN  [title |-> g.rows[k][1],
             value |-> Quoted(IF g.rows[k][2] = "destinationBucket"
                              THEN LastSegment(v) ELSE Fmt(v))]]

RECURSIVE ExpectedGroupRows(_, _)
ExpectedGroupRows(record, k) ==
    IF k > Len(OptionalGroups) THEN <<>>
    ELSE (IF GroupPresent(record, OptionalGroups[k])
          THEN GroupRows(record, OptionalGroups[k]) ELSE <<>>)
         \o ExpectedGroupRows(record, k + 1)

\* record idx carries an S3 notification that rule 5 selects, whose first
\* record has the core keys and whose present sub-objects hold their keys
StorageRecord == FirstRecord(Message(idx))
StorageCase ==
    /\ Classified
    /\ IsDict(Message(idx))
    /\ MatchesSome(Message(idx), Subject(idx))
    /\ LowestRule(Message(idx), Subject(idx)) = 5
    /\ S3CoreErr(StorageRecord) = "none"
    /\ \A k \in 1..Len(OptionalGroups) :
         GroupPresent(StorageRecord, OptionalGroups[k])
         => GroupHoldsKeys(StorageRecord, OptionalGroups[k])

\* C11 (as claimed): for an S3 record with the core keys and any subset of
\* the five optional sub-objects, each holding its keys, the call does not
\* fail and the attachment's fields are the 8 core fields followed by exactly
\* the fields of the present groups (1, 2, 5, 2, 2 fields) in the fixed order,
\* each group's fields read from its own sub-object.
C11_GroupsIndependent ==
    StorageCase
    => /\ pc = "send"
       /\ LET fields == Attachments(payload)[1].fields
              rows == ExpectedGroupRows(StorageRecord, 1)
          IN  /\ Len(fields) = Len(S3CoreFields(StorageRecord)) + Len(rows)
              /\ SubSeq(fields, 1, Len(S3CoreFields(StorageRecord)))
                   = S3CoreFields(StorageRecord)
              /\ \A k \in 1..Len(rows) :
                   LET f == fields[Len(S3CoreFields(StorageRecord)) + k]
                   IN  f.title = rows[k].title /\ f.value = rows[k].value

\* C12 (as claimed): an envelope record that has no Sns block and is itself
\* an S3 record (eventSource aws:s3, awsRegion, known eventName) is taken as
\* the message with awsRegion as region and the fixed subject, rule 5 selects
\* the S3 formatter, and one POST is made carrying the S3 attachment of that
\* record.
C12_StorageRecordEndToEnd ==
    (/\ pc \in {"send", "raised"}
     /\ ~HasKey(event[idx], "Sns")
     /\ EqStr(Get(event[idx], "eventSource", None), "aws:s3")
     /\ HasKey(event[idx], "awsRegion")
     /\ S3CoreErr(event[idx]) = "none")
    => /\ Extract(event[idx]).ok
       /\ RawMessage(idx) = event[idx]
       /\ Region(idx) = Lookup(event[idx], "awsRegion")
       /\ Subject(idx) = S3Subject
       /\ raised \in SendErrors \cup {"none"}
       /\ Len(Attachments(payload)) = 1
       /\ SubSeq(Attachments(payload)[1].fields, 1, Len(S3CoreFields(event[idx])))
            = S3CoreFields(event[idx])
       /\ Attachments(payload)[1].text = "*New Amazon S3 Object Notification Event*"

====
